---- MODULE Spec2Model ----
(***************************************************************************)
(* SmartFoodSnap: the session state machine of App (src/App.tsx and the    *)
(* later listing of App in src/BACKEND_SPEC.md) and the retry controller   *)
(* of src/services/geminiService.ts.                                       *)
(*                                                                         *)
(* React state is the session state.  Every handler runs to its first      *)
(* await in one step; the continuation after an await is a separate step   *)
(* that runs when the awaited promise settles.  A handler can be invoked   *)
(* only through an element that is rendered and enabled in the current     *)
(* state, so the render conditions of App and AudioRecorder are the        *)
(* guards of the intents.  Recording a voice note and stopping it is one   *)
(* intent: the recorder's stop event is taken to be delivered in the step  *)
(* of the click that stops it.                                             *)
(***************************************************************************)
EXTENDS Integers, Sequences, FiniteSets, TLC

VARIABLES
  rev,             \* which listing of App runs: "App.tsx" or "BACKEND_SPEC.md"
  appState,        \* useState<AppState>
  selectedImage,   \* useState<string | null>
  analysisResult,  \* useState<AnalysisResult | null>
  correctionText,  \* useState('')
  errorMessage,    \* useState<string | null>
  rawError,        \* useState<string | null> (BACKEND_SPEC.md listing only)
  ops,             \* the asynchronous operations started by the handlers
  nOps,            \* how many operations have been started
  sinceReset,      \* history: no intent was issued since the last resetApp
  last,            \* history: the step taken last
  rPc,             \* retryWithBackoff: position of the running invocation
  rArgs,           \* retryWithBackoff: the arguments of the outermost call
  rRetries,        \* retryWithBackoff: `retries` of the current recursion level
  rDelay,          \* retryWithBackoff: `delay` of the current recursion level
  rCalls,          \* history: how many times fn was called
  rWaits,          \* history: the setTimeout delays waited, in order
  rFail,           \* history: the failure of the last call of fn, if it failed
  rAllTransient,   \* history: every call of fn so far failed with 429/503 kind
  rErr,            \* the failure retryWithBackoff threw to its caller
  sOp,             \* the service function running inside retryWithBackoff
  sPc,             \* the model whose generateContent call fn awaits, if any
  sLog,            \* history: the calls made by the current run of fn
  sCalls,          \* history: how many calls each model has received
  sProTransient,   \* history: every Pro call so far failed transiently
  sLast,           \* history: the outcome of the last generateContent call
  sResult,         \* the AnalysisResult the service function resolved with
  rsIn,            \* resizeImage: img.width and img.height of the chosen file
  rsOut,           \* resizeImage: canvas.width and canvas.height
  isCameraOpen,    \* CameraCapture: useState(false)
  facingMode,      \* CameraCapture: useState('environment')
  cameraError,     \* CameraCapture: useState<string | null>
  camMounted,      \* CameraCapture: the component is mounted
  camRuns,         \* CameraCapture: the getUserMedia requests of the effect runs
  camN,            \* CameraCapture: how many getUserMedia requests were made
  camCur,          \* CameraCapture: the request of the current effect run, or 0
  activeStreamRef, \* CameraCapture: activeStreamRef.current
  camLive          \* history: the streams obtained whose tracks are running

appVars == <<rev, appState, selectedImage, analysisResult, correctionText,
             errorMessage, rawError, ops, nOps, sinceReset, last>>
retryVars == <<rPc, rArgs, rRetries, rDelay, rCalls, rWaits, rFail,
               rAllTransient, rErr>>
svcVars == <<sOp, sPc, sLog, sCalls, sProTransient, sLast, sResult>>
resizeVars == <<rsIn, rsOut>>
camVars == <<isCameraOpen, facingMode, cameraError, camMounted, camRuns, camN,
             camCur, activeStreamRef, camLive>>
deviceVars == <<resizeVars, camVars>>
vars == <<appVars, retryVars, svcVars, deviceVars>>

----------------------------------------------------------------------------
(* Bounds *)

MaxOps == 3          \* operations started in one behaviour
MaxRetriesArg == 3   \* largest `retries` argument tried

----------------------------------------------------------------------------
(* Values *)

None == <<>>
Some(x) == <<x>>

IDLE == "IDLE"
ANALYZING_IMAGE == "ANALYZING_IMAGE"
RESULT_VIEW == "RESULT_VIEW"
PROCESSING_CORRECTION == "PROCESSING_CORRECTION"
ERROR == "ERROR"
AppState == {IDLE, ANALYZING_IMAGE, RESULT_VIEW, PROCESSING_CORRECTION, ERROR}

Revs == {"App.tsx", "BACKEND_SPEC.md"}

\* Substrings a failure message may contain.
Markers ==
  {"429", "403", "404", "503", "PERMISSION_DENIED", "RESOURCE_EXHAUSTED",
   "quota", "overloaded", "API Key"}

\* A failure raised by the inference capability or by a service function:
\* status 0 stands for an absent status code.
Statuses == {0, 429, 503, 403, 404, 500}
Failures == [status : Statuses, msg : {m \in SUBSET Markers : Cardinality(m) <= 1}]

\* The rejections the session sees from the service functions.
SessionFailures ==
  { [status |-> 503, msg |-> {"503"}],
    [status |-> 0, msg |-> {"403"}],
    [status |-> 0, msg |-> {}] }

\* What the user can type, and what a transcription can return.
Texts == {"", " ", "rice 200g", " rice 200g "}
Transcripts == {"", "voice: rice 200g"}

\* String.prototype.trim on the texts above.
Trim(t) ==
  CASE t = " " -> ""
    [] t = " rice 200g " -> "rice 200g"
    [] OTHER -> t

\* The AnalysisResult analyzeFoodImage resolves with for the image of
\* operation i, and the one recalculateMacros resolves with for `prev`.
AnalysisOf(i) == [image |-> i, corrections |-> 0]
Recalculated(prev) == [image |-> prev.image, corrections |-> prev.corrections + 1]

NoOp == [kind |-> "none", phase |-> "none", prev |-> None, text |-> "", reset |-> FALSE]
OpIds == 1..MaxOps

Step(act, i, prev, stale) == [act |-> act, op |-> i, prev |-> prev, stale |-> stale]

----------------------------------------------------------------------------
(* Presentation: what is rendered decides which handler can be invoked *)

\* The result view and the bottom correction bar.
BarRendered ==
  /\ appState \in {RESULT_VIEW, PROCESSING_CORRECTION}
  /\ analysisResult # None

isProcessingNever == FALSE

\* AudioRecorder's isProcessing prop: the recorder shows a disabled spinner.
isProcessing == appState = PROCESSING_CORRECTION

\* The text input (Enter key) and the send button.
InputEnabled == BarRendered /\ appState # PROCESSING_CORRECTION

\* The recorder's microphone / stop button.
RecorderEnabled == BarRendered /\ ~isProcessing

\* CameraCapture is rendered in IDLE only.
CameraRendered == appState = IDLE

\* The "new photo" button in the header / Telegram back button / the ERROR screen button.
ResetShown == appState # IDLE

----------------------------------------------------------------------------
(* Error presentation (the localized messages are abbreviated in English) *)

IMAGE_FAILED == "image analysis failed, try another photo"
RECALC_FAILED == "recalculation failed, try again"
SPEECH_FAILED == "speech was not recognised"
MSG_403 == "access error (403)"
MSG_429 == "too many requests, retry later"
MSG_503 == "server overloaded, retry in a minute"
MSG_API_KEY == "service configuration error"
MSG_DEFAULT == "processing error, try again"

\* String.prototype.toLowerCase on the substrings of a message.
LowerCase(msg) ==
  { CASE m = "PERMISSION_DENIED" -> "permission_denied"
      [] m = "RESOURCE_EXHAUSTED" -> "resource_exhausted"
      [] m = "API Key" -> "api key"
      [] OTHER -> m : m \in msg }

\* getUserFriendlyError: substring tests on the lower-cased message.
getUserFriendlyError(error) ==
  LET msg == LowerCase(error.msg) IN
  IF "403" \in msg \/ "permission_denied" \in msg THEN MSG_403
  ELSE IF "429" \in msg \/ "quota" \in msg \/ "resource_exhausted" \in msg THEN MSG_429
  ELSE IF "503" \in msg \/ "overloaded" \in msg THEN MSG_503
  ELSE IF "api key" \in msg THEN MSG_API_KEY
  ELSE MSG_DEFAULT

\* error.message || JSON.stringify(error)
RawErrorOf(error) ==
  [from |-> IF error.msg # {} THEN "message" ELSE "json", msg |-> error.msg]

\* The error state a catch block of handler `h` leaves for failure e.
ErrorMessageFor(h, e) ==
  IF rev = "App.tsx"
  THEN Some(CASE h = "image" -> IMAGE_FAILED
              [] h = "recalc" -> RECALC_FAILED
              [] OTHER -> SPEECH_FAILED)
  ELSE Some(getUserFriendlyError(e))

RawErrorFor(e) == IF rev = "App.tsx" THEN rawError ELSE Some(RawErrorOf(e))

\* setErrorMessage(null); setRawError(null) at the start of a handler.
ClearedError == None
ClearedRawErrorKept == rawError
ClearedRawError == IF rev = "App.tsx" THEN rawError ELSE None

----------------------------------------------------------------------------
(* Session state machine *)

InitApp ==
  /\ rev \in Revs
  /\ appState = IDLE
  /\ selectedImage = None
  /\ analysisResult = None
  /\ correctionText = ""
  /\ errorMessage = None
  /\ rawError = None
  /\ ops = [i \in OpIds |-> NoOp]
  /\ nOps = 0
  /\ sinceReset = TRUE
  /\ last = Step("init", 0, None, FALSE)

InitRetryIdle ==
  /\ rPc = "idle"
  /\ rArgs = [retries |-> 0, delay |-> 0]
  /\ rRetries = 0
  /\ rDelay = 0
  /\ rCalls = 0
  /\ rWaits = <<>>
  /\ rFail = None
  /\ rAllTransient = TRUE
  /\ rErr = None

\* No service function has been called yet.
InitSvcIdle ==
  /\ sOp = "none"
  /\ sPc = "none"
  /\ sLog = <<>>
  /\ sCalls = [pro |-> 0, flash |-> 0]
  /\ sProTransient = TRUE
  /\ sLast = [tier |-> "none", kind |-> "none", fail |-> None, payload |-> None]
  /\ sResult = None

\* No file was chosen, and CameraCapture has just been mounted: its effect
\* ran with isCameraOpen false and requested nothing.
InitDevice ==
  /\ rsIn = None
  /\ rsOut = None
  /\ isCameraOpen = FALSE
  /\ facingMode = "environment"
  /\ cameraError = None
  /\ camMounted = TRUE
  /\ camRuns = <<>>
  /\ camN = 0
  /\ camCur = 0
  /\ activeStreamRef = None
  /\ camLive = {}

Init == InitApp /\ InitRetryIdle /\ InitSvcIdle /\ InitDevice

\* Start operation number nOps + 1.
StartOp(kind, phase, prev, text) ==
  /\ nOps < MaxOps
  /\ nOps' = nOps + 1
  /\ ops' = [ops EXCEPT ![nOps + 1] =
               [kind |-> kind, phase |-> phase, prev |-> prev, text |-> text,
                reset |-> FALSE]]

resetAppKeepsText ==
  /\ ResetShown
  /\ appState' = IDLE
  /\ selectedImage' = None
  /\ analysisResult' = None
  /\ errorMessage' = None
  /\ rawError' = None
  /\ ops' = [i \in OpIds |->
               IF ops[i].kind = "none" THEN ops[i] ELSE [ops[i] EXCEPT !.reset = TRUE]]
  /\ sinceReset' = TRUE
  /\ last' = Step("reset", 0, analysisResult, FALSE)
  /\ UNCHANGED <<rev, nOps, correctionText>>

\* resetApp: the in-flight operations are not cancelled; they are marked
\* (history only) as started before the reset.
resetApp ==
  /\ ResetShown
  /\ appState' = IDLE
  /\ selectedImage' = None
  /\ analysisResult' = None
  /\ correctionText' = ""
  /\ errorMessage' = None
  /\ rawError' = None
  /\ ops' = [i \in OpIds |->
               IF ops[i].kind = "none" THEN ops[i] ELSE [ops[i] EXCEPT !.reset = TRUE]]
  /\ sinceReset' = TRUE
  /\ last' = Step("reset", 0, analysisResult, FALSE)
  /\ UNCHANGED <<rev, nOps>>

\* handleImageSelect up to its first await (FileReader / resizeImage).
handleImageSelect ==
  /\ CameraRendered
  /\ appState' = ANALYZING_IMAGE
  /\ errorMessage' = ClearedError
  /\ rawError' = ClearedRawError
  /\ StartOp("image", "reading", None, "")
  /\ sinceReset' = FALSE
  /\ last' = Step("imageSelect", nOps + 1, None, FALSE)
  /\ UNCHANGED <<rev, selectedImage, analysisResult, correctionText>>

\* reader.onloadend with a data URL (App.tsx) / resizeImage resolved
\* (BACKEND_SPEC.md): setSelectedImage, then analyzeFoodImage is called.
ImageLoaded(i) ==
  /\ ops[i].kind = "image" /\ ops[i].phase = "reading"
  /\ selectedImage' = Some(i)
  /\ ops' = [ops EXCEPT ![i].phase = "calling"]
  /\ last' = Step("imageLoaded", i, None, ops[i].reset)
  /\ UNCHANGED <<rev, appState, analysisResult, correctionText, errorMessage,
                 rawError, nOps, sinceReset>>

\* The FileReader fails to read the file.  App.tsx: reader.onloadend runs
\* with reader.result null, setSelectedImage(null) runs and null.split
\* throws outside the try block.  BACKEND_SPEC.md: resizeImage registers no
\* reader.onerror, so its promise never settles and nothing runs.
ImageReadNull(i) ==
  /\ ops[i].kind = "image" /\ ops[i].phase = "reading"
  /\ selectedImage' = (IF rev = "App.tsx" THEN None ELSE selectedImage)
  /\ ops' = [ops EXCEPT ![i] = NoOp]
  /\ last' = Step("imageReadNull", i, None, ops[i].reset)
  /\ UNCHANGED <<rev, appState, analysisResult, correctionText, errorMessage,
                 rawError, nOps, sinceReset>>

\* BACKEND_SPEC.md: resizeImage rejects (img.onerror): the catch block runs
\* with an Event, which has no message.
ImageResizeRejected(i) ==
  /\ rev = "BACKEND_SPEC.md"
  /\ ops[i].kind = "image" /\ ops[i].phase = "reading"
  /\ rawError' = RawErrorFor([status |-> 0, msg |-> {}])
  /\ errorMessage' = ErrorMessageFor("image", [status |-> 0, msg |-> {}])
  /\ appState' = ERROR
  /\ ops' = [ops EXCEPT ![i] = NoOp]
  /\ last' = Step("imageResizeRejected", i, None, ops[i].reset)
  /\ UNCHANGED <<rev, selectedImage, analysisResult, correctionText, nOps,
                 sinceReset>>

\* analyzeFoodImage resolved.
ImageAnalyzed(i) ==
  /\ ops[i].kind = "image" /\ ops[i].phase = "calling"
  /\ analysisResult' = Some(AnalysisOf(i))
  /\ appState' = RESULT_VIEW
  /\ ops' = [ops EXCEPT ![i] = NoOp]
  /\ last' = Step("imageOk", i, None, ops[i].reset)
  /\ UNCHANGED <<rev, selectedImage, correctionText, errorMessage, rawError,
                 nOps, sinceReset>>

\* analyzeFoodImage rejected with e.
ImageFailed(i, e) ==
  /\ ops[i].kind = "image" /\ ops[i].phase = "calling"
  /\ rawError' = RawErrorFor(e)
  /\ errorMessage' = ErrorMessageFor("image", e)
  /\ appState' = ERROR
  /\ ops' = [ops EXCEPT ![i] = NoOp]
  /\ last' = Step("imageFail", i, None, ops[i].reset)
  /\ UNCHANGED <<rev, selectedImage, analysisResult, correctionText, nOps,
                 sinceReset>>

\* onChange of the correction input.
editCorrectionText(t) ==
  /\ InputEnabled
  /\ correctionText' = t
  /\ last' = Step("edit", 0, None, FALSE)
  /\ UNCHANGED <<rev, appState, selectedImage, analysisResult, errorMessage,
                 rawError, ops, nOps, sinceReset>>

handleCorrectionSubmitNoTrim ==
  /\ InputEnabled
  /\ IF correctionText = "" \/ analysisResult = None
     THEN /\ last' = Step("submitIgnored", 0, analysisResult, FALSE)
          /\ UNCHANGED <<rev, appState, selectedImage, analysisResult,
                         correctionText, errorMessage, rawError, ops, nOps,
                         sinceReset>>
     ELSE /\ appState' = PROCESSING_CORRECTION
          /\ errorMessage' = (IF rev = "App.tsx" THEN errorMessage ELSE ClearedError)
          /\ rawError' = ClearedRawError
          /\ StartOp("recalc", "calling", analysisResult,
                     IF rev = "App.tsx" THEN correctionText ELSE Trim(correctionText))
          /\ sinceReset' = FALSE
          /\ last' = Step("submit", nOps + 1, analysisResult, FALSE)
          /\ UNCHANGED <<rev, selectedImage, analysisResult, correctionText>>

\* handleCorrectionSubmit up to its await (Enter key or send button).
handleCorrectionSubmit ==
  /\ InputEnabled
  /\ IF Trim(correctionText) = "" \/ analysisResult = None
     THEN /\ last' = Step("submitIgnored", 0, analysisResult, FALSE)
          /\ UNCHANGED <<rev, appState, selectedImage, analysisResult,
                         correctionText, errorMessage, rawError, ops, nOps,
                         sinceReset>>
     ELSE /\ appState' = PROCESSING_CORRECTION
          /\ errorMessage' = (IF rev = "App.tsx" THEN errorMessage ELSE ClearedError)
          /\ rawError' = ClearedRawError
          /\ StartOp("recalc", "calling", analysisResult,
                     IF rev = "App.tsx" THEN correctionText ELSE Trim(correctionText))
          /\ sinceReset' = FALSE
          /\ last' = Step("submit", nOps + 1, analysisResult, FALSE)
          /\ UNCHANGED <<rev, selectedImage, analysisResult, correctionText>>

RecalculationKeepsText(i) ==
  /\ ops[i].kind = "recalc" /\ ops[i].phase = "calling"
  /\ analysisResult' = Some(Recalculated(ops[i].prev[1]))
  /\ appState' = RESULT_VIEW
  /\ ops' = [ops EXCEPT ![i] = NoOp]
  /\ last' = Step("recalcOk", i, ops[i].prev, ops[i].reset)
  /\ UNCHANGED <<rev, selectedImage, correctionText, errorMessage, rawError,
                 nOps, sinceReset>>

\* recalculateMacros resolved.
Recalculation(i) ==
  /\ ops[i].kind = "recalc" /\ ops[i].phase = "calling"
  /\ analysisResult' = Some(Recalculated(ops[i].prev[1]))
  /\ correctionText' = ""
  /\ appState' = RESULT_VIEW
  /\ ops' = [ops EXCEPT ![i] = NoOp]
  /\ last' = Step("recalcOk", i, ops[i].prev, ops[i].reset)
  /\ UNCHANGED <<rev, selectedImage, errorMessage, rawError, nOps, sinceReset>>

\* recalculateMacros rejected with e.
RecalculationFailed(i, e) ==
  /\ ops[i].kind = "recalc" /\ ops[i].phase = "calling"
  /\ rawError' = RawErrorFor(e)
  /\ errorMessage' = ErrorMessageFor("recalc", e)
  /\ appState' = RESULT_VIEW
  /\ ops' = [ops EXCEPT ![i] = NoOp]
  /\ last' = Step("recalcFail", i, ops[i].prev, ops[i].reset)
  /\ UNCHANGED <<rev, selectedImage, analysisResult, correctionText, nOps,
                 sinceReset>>

\* handleAudioCorrection up to its await (a recording was completed).
handleAudioCorrection ==
  /\ RecorderEnabled
  /\ appState' = PROCESSING_CORRECTION
  /\ errorMessage' = (IF rev = "App.tsx" THEN errorMessage ELSE ClearedError)
  /\ rawError' = ClearedRawError
  /\ StartOp("transcribe", "calling", analysisResult, "")
  /\ sinceReset' = FALSE
  /\ last' = Step("audio", nOps + 1, analysisResult, FALSE)
  /\ UNCHANGED <<rev, selectedImage, analysisResult, correctionText>>

\* transcribeAudio resolved with text t.
Transcribed(i, t) ==
  /\ ops[i].kind = "transcribe" /\ ops[i].phase = "calling"
  /\ correctionText' = t
  /\ appState' = RESULT_VIEW
  /\ ops' = [ops EXCEPT ![i] = NoOp]
  /\ last' = Step("transcribeOk", i, ops[i].prev, ops[i].reset)
  /\ UNCHANGED <<rev, selectedImage, analysisResult, errorMessage, rawError,
                 nOps, sinceReset>>

TranscriptionFailedClearsText(i, e) ==
  /\ ops[i].kind = "transcribe" /\ ops[i].phase = "calling"
  /\ rawError' = RawErrorFor(e)
  /\ errorMessage' = ErrorMessageFor("audio", e)
  /\ correctionText' = ""
  /\ appState' = RESULT_VIEW
  /\ ops' = [ops EXCEPT ![i] = NoOp]
  /\ last' = Step("transcribeFail", i, ops[i].prev, ops[i].reset)
  /\ UNCHANGED <<rev, selectedImage, analysisResult, nOps, sinceReset>>

\* transcribeAudio rejected with e.
TranscriptionFailed(i, e) ==
  /\ ops[i].kind = "transcribe" /\ ops[i].phase = "calling"
  /\ rawError' = RawErrorFor(e)
  /\ errorMessage' = ErrorMessageFor("audio", e)
  /\ appState' = RESULT_VIEW
  /\ ops' = [ops EXCEPT ![i] = NoOp]
  /\ last' = Step("transcribeFail", i, ops[i].prev, ops[i].reset)
  /\ UNCHANGED <<rev, selectedImage, analysisResult, correctionText, nOps,
                 sinceReset>>

Next ==
  \/ resetApp /\ UNCHANGED <<retryVars, svcVars, deviceVars>>
  \/ handleImageSelect /\ UNCHANGED <<retryVars, svcVars, deviceVars>>
  \/ (\E i \in OpIds : ImageLoaded(i)) /\ UNCHANGED <<retryVars, svcVars, deviceVars>>
  \/ (\E i \in OpIds : ImageReadNull(i)) /\ UNCHANGED <<retryVars, svcVars, deviceVars>>
  \/ (\E i \in OpIds : ImageResizeRejected(i)) /\ UNCHANGED <<retryVars, svcVars, deviceVars>>
  \/ (\E i \in OpIds : ImageAnalyzed(i)) /\ UNCHANGED <<retryVars, svcVars, deviceVars>>
  \/ (\E i \in OpIds, e \in SessionFailures : ImageFailed(i, e)) /\ UNCHANGED <<retryVars, svcVars, deviceVars>>
  \/ (\E t \in Texts : editCorrectionText(t)) /\ UNCHANGED <<retryVars, svcVars, deviceVars>>
  \/ handleCorrectionSubmit /\ UNCHANGED <<retryVars, svcVars, deviceVars>>
  \/ (\E i \in OpIds : Recalculation(i)) /\ UNCHANGED <<retryVars, svcVars, deviceVars>>
  \/ (\E i \in OpIds, e \in SessionFailures : RecalculationFailed(i, e)) /\ UNCHANGED <<retryVars, svcVars, deviceVars>>
  \/ handleAudioCorrection /\ UNCHANGED <<retryVars, svcVars, deviceVars>>
  \/ (\E i \in OpIds, t \in Transcripts : Transcribed(i, t)) /\ UNCHANGED <<retryVars, svcVars, deviceVars>>
  \/ (\E i \in OpIds, e \in SessionFailures : TranscriptionFailed(i, e)) /\ UNCHANGED <<retryVars, svcVars, deviceVars>>

Spec == Init /\ [][Next]_vars

\* The continuations of operation i: what runs when the file read or the
\* service call of the operation completes.
Completion(i) ==
  \/ ImageLoaded(i)
  \/ ImageReadNull(i)
  \/ ImageResizeRejected(i)
  \/ ImageAnalyzed(i)
  \/ \E e \in SessionFailures : ImageFailed(i, e)
  \/ Recalculation(i)
  \/ \E e \in SessionFailures : RecalculationFailed(i, e)
  \/ \E t \in Transcripts : Transcribed(i, t)
  \/ \E e \in SessionFailures : TranscriptionFailed(i, e)

\* Every file read and every service call eventually completes; the user
\* is not obliged to do anything.
SpecLive ==
  Spec /\ \A i \in OpIds : WF_vars(Completion(i) /\ UNCHANGED <<retryVars, svcVars, deviceVars>>)

----------------------------------------------------------------------------
(* Retry controller: retryWithBackoff(fn, retries = 3, delay = 1000) *)

DefaultRetries == 3
DefaultDelay == 1000
RetriesArgs == 0..MaxRetriesArg
DelayArgs == {DefaultDelay, DefaultDelay \div 4}

\* The kind of a failure: the status code decides when there is one, the
\* message substrings only when there is none.
Kind(f) ==
  CASE f.status = 429 -> "RATE_LIMITED"
    [] f.status = 503 -> "OVERLOADED"
    [] f.status = 403 -> "ACCESS_DENIED"
    [] f.status = 404 -> "NOT_FOUND"
    [] f.status # 0 -> "UNKNOWN"
    [] "429" \in f.msg -> "RATE_LIMITED"
    [] "503" \in f.msg -> "OVERLOADED"
    [] "403" \in f.msg \/ "PERMISSION_DENIED" \in f.msg -> "ACCESS_DENIED"
    [] "404" \in f.msg -> "NOT_FOUND"
    [] OTHER -> "UNKNOWN"

TransientKinds == {"RATE_LIMITED", "OVERLOADED"}

ShouldRetryOffByOne(retries, error) ==
  retries >= 0 /\ (error.status = 429 \/ error.status = 503 \/ "429" \in error.msg)

\* The condition of the catch block under which the call is repeated.
ShouldRetry(retries, error) ==
  retries > 0 /\ (error.status = 429 \/ error.status = 503 \/ "429" \in error.msg)

NextDelayConstant(delay) == delay

\* The delay handed to the recursive call.
NextDelay(delay) == delay * 2

\* retryWithBackoff(fn, r, d) is invoked and calls fn.
Invoke(r, d) ==
  /\ rPc = "idle"
  /\ rArgs' = [retries |-> r, delay |-> d]
  /\ rRetries' = r
  /\ rDelay' = d
  /\ rPc' = "calling"
  /\ rCalls' = 1
  /\ UNCHANGED <<rWaits, rFail, rAllTransient, rErr>>

\* await fn() resolved: the value is returned.
FnResolves ==
  /\ rPc = "calling"
  /\ rPc' = "returned"
  /\ UNCHANGED <<rArgs, rRetries, rDelay, rCalls, rWaits, rFail, rAllTransient, rErr>>

\* await fn() rejected with f: the catch block either starts the timer or
\* rethrows.
FnRejects(f) ==
  /\ rPc = "calling"
  /\ rFail' = Some(f)
  /\ rAllTransient' = (rAllTransient /\ Kind(f) \in TransientKinds)
  /\ IF ShouldRetry(rRetries, f)
     THEN /\ rPc' = "waiting"
          /\ rWaits' = Append(rWaits, rDelay)
          /\ rErr' = rErr
     ELSE /\ rPc' = "thrown"
          /\ rErr' = Some(f)
          /\ rWaits' = rWaits
  /\ UNCHANGED <<rArgs, rRetries, rDelay, rCalls>>

\* The timer fired: retryWithBackoff(fn, retries - 1, delay * 2) calls fn.
TimerFires ==
  /\ rPc = "waiting"
  /\ rRetries' = rRetries - 1
  /\ rDelay' = NextDelay(rDelay)
  /\ rPc' = "calling"
  /\ rCalls' = rCalls + 1
  /\ rFail' = None
  /\ UNCHANGED <<rArgs, rWaits, rAllTransient, rErr>>

NextRetry ==
  \/ (\E r \in RetriesArgs, d \in DelayArgs : Invoke(r, d)) /\ UNCHANGED <<appVars, svcVars, deviceVars>>
  \/ FnResolves /\ UNCHANGED <<appVars, svcVars, deviceVars>>
  \/ (\E f \in Failures : FnRejects(f)) /\ UNCHANGED <<appVars, svcVars, deviceVars>>
  \/ TimerFires /\ UNCHANGED <<appVars, svcVars, deviceVars>>

InitRetry == InitApp /\ rev = "App.tsx" /\ InitRetryIdle /\ InitSvcIdle /\ InitDevice

SpecRetry == InitRetry /\ [][NextRetry]_vars

----------------------------------------------------------------------------
(* Service functions: analyzeFoodImage, recalculateMacros, analyzeFoodText *)
(* (src/services/geminiService.ts, the version with retryWithBackoff)      *)

PRO == "gemini-3-pro-preview"
FLASH == "gemini-2.5-flash"

ServiceOps == {"analyzeFoodImage", "recalculateMacros", "analyzeFoodText"}
TieredOps == {"analyzeFoodImage", "recalculateMacros"}

\* What JSON.parse can yield for response.text.  A field is TRUE when it is
\* present with the type AnalysisResult declares; confidence is the
\* confidence of an item in tenths (14 is 1.4, -2 is -0.2).
GoodPayload == [items |-> TRUE, total |-> TRUE, summary |-> TRUE, confidence |-> 9]
Payloads ==
  { GoodPayload,
    [GoodPayload EXCEPT !.confidence = 14],
    [GoodPayload EXCEPT !.confidence = -2],
    [GoodPayload EXCEPT !.items = FALSE],
    [GoodPayload EXCEPT !.total = FALSE],
    [GoodPayload EXCEPT !.summary = FALSE] }

\* new Error("No response from Gemini"): no status, no marker in the message.
NoResponse == [status |-> 0, msg |-> {}]

\* The SyntaxError of JSON.parse: no status; its message quotes a position
\* or a piece of the text, so it can hold any marker.
ParseErrors == {f \in Failures : f.status = 0}

\* The outcomes of one generateContent call followed by the reading of
\* response.text and JSON.parse.
Rejected(f) == [kind |-> "fail", fail |-> Some(f), payload |-> None]
EmptyText == [kind |-> "empty", fail |-> Some(NoResponse), payload |-> None]
Unparsable(f) == [kind |-> "unparsable", fail |-> Some(f), payload |-> None]
Json(p) == [kind |-> "json", fail |-> None, payload |-> Some(p)]
ErrorResponses ==
  {Rejected(f) : f \in Failures} \cup {EmptyText} \cup {Unparsable(f) : f \in ParseErrors}

\* The kind the outcome of a call has for the fallback chain.
ResKind(resp) ==
  CASE resp.kind = "json" -> "OK"
    [] resp.kind \in {"empty", "unparsable"} -> "MALFORMED_OUTPUT"
    [] OTHER -> Kind(resp.fail[1])

\* The model a service function calls first.
FirstModelAlwaysPro(op) == PRO

FirstModel(op) == IF op = "analyzeFoodText" THEN FLASH ELSE PRO

\* contents and config of a generateContent call: the same constants
\* (contentPart or prompt, configPart) at each call of one function.
TaskOf(op, model) == [contents |-> op, responseSchema |-> "analysisResponseSchema"]

Call(op, model) ==
  [tier |-> model, task |-> TaskOf(op, model), res |-> "PENDING", status |-> 0]

Counted(model) ==
  IF model = PRO THEN [sCalls EXCEPT !.pro = @ + 1]
                 ELSE [sCalls EXCEPT !.flash = @ + 1]

StillTransient(resp) ==
  IF sPc = PRO THEN sProTransient /\ ResKind(resp) \in TransientKinds
               ELSE sProTransient

\* The condition of the catch block around the Pro call.
ShouldFallbackOn403Only(op, error) ==
  op \in TieredOps /\ error.status = 403

ShouldFallback(op, error) ==
  CASE op = "analyzeFoodImage" ->
         \/ error.status = 403
         \/ error.status = 404
         \/ "403" \in error.msg
         \/ "404" \in error.msg
         \/ "PERMISSION_DENIED" \in error.msg
    [] op = "recalculateMacros" ->
         \/ error.status = 403
         \/ error.status = 404
         \/ "403" \in error.msg
         \/ "404" \in error.msg
    [] OTHER -> FALSE

\* result.modelUsed
ModelUsedAlwaysPro(op, model) == "Gemini 3.0 Pro"

ModelUsed(op, model) ==
  CASE model = PRO -> "Gemini 3.0 Pro"
    [] op = "analyzeFoodText" -> "Gemini 2.5 Flash (Text)"
    [] OTHER -> "Gemini 2.5 Flash"

\* JSON.parse(text) as AnalysisResult; result.modelUsed = label
ResultOf(p, label) ==
  [items |-> p.items, total |-> p.total, summary |-> p.summary,
   confidence |-> p.confidence, modelUsed |-> label]

Logged(resp) ==
  [sLog EXCEPT ![Len(sLog)] =
     [@ EXCEPT !.res = ResKind(resp),
               !.status = IF resp.kind = "fail" THEN resp.fail[1].status ELSE 0]]

Outcome(resp) ==
  [tier |-> sPc, kind |-> resp.kind, fail |-> resp.fail, payload |-> resp.payload]

\* The service function is called: retryWithBackoff(fn) with the default
\* arguments calls fn, which awaits its first generateContent call.
SvcInvoke(op) ==
  /\ Invoke(DefaultRetries, DefaultDelay)
  /\ sOp' = op
  /\ sPc' = FirstModel(op)
  /\ sLog' = <<Call(op, FirstModel(op))>>
  /\ sCalls' = Counted(FirstModel(op))
  /\ UNCHANGED <<sProTransient, sLast, sResult>>

\* The awaited call resolved with a text that parses: fn returns the result.
Parsed(p) ==
  /\ sPc # "none"
  /\ FnResolves
  /\ sResult' = Some(ResultOf(p, ModelUsed(sOp, sPc)))
  /\ sLast' = Outcome(Json(p))
  /\ sLog' = Logged(Json(p))
  /\ sProTransient' = StillTransient(Json(p))
  /\ sPc' = "none"
  /\ UNCHANGED <<sOp, sCalls>>

\* The Pro call, the empty-text check or JSON.parse threw inside the try
\* block and the catch block takes the fallback branch: fn awaits the Flash
\* call.
FallsBack(resp) ==
  /\ sPc = PRO
  /\ rPc = "calling"
  /\ ShouldFallback(sOp, resp.fail[1])
  /\ sPc' = FLASH
  /\ sLast' = Outcome(resp)
  /\ sLog' = Append(Logged(resp), Call(sOp, FLASH))
  /\ sCalls' = Counted(FLASH)
  /\ sProTransient' = StillTransient(resp)
  /\ UNCHANGED <<sOp, sResult>>
  /\ UNCHANGED retryVars

\* An error leaves fn: rethrown by the catch block around the Pro call, or
\* thrown by the Flash call, its empty-text check or its JSON.parse.
FnThrows(resp) ==
  /\ sPc # "none"
  /\ ~(sPc = PRO /\ ShouldFallback(sOp, resp.fail[1]))
  /\ FnRejects(resp.fail[1])
  /\ sPc' = "none"
  /\ sLast' = Outcome(resp)
  /\ sLog' = Logged(resp)
  /\ sProTransient' = StillTransient(resp)
  /\ UNCHANGED <<sOp, sCalls, sResult>>

\* The backoff timer fired: fn is called again from its first statement.
SvcTimerFires ==
  /\ sOp # "none"
  /\ TimerFires
  /\ sPc' = FirstModel(sOp)
  /\ sLog' = <<Call(sOp, FirstModel(sOp))>>
  /\ sCalls' = Counted(FirstModel(sOp))
  /\ UNCHANGED <<sOp, sProTransient, sLast, sResult>>

NextSvc ==
  \/ (\E op \in ServiceOps : SvcInvoke(op)) /\ UNCHANGED <<appVars, deviceVars>>
  \/ (\E p \in Payloads : Parsed(p)) /\ UNCHANGED <<appVars, deviceVars>>
  \/ (\E resp \in ErrorResponses : FallsBack(resp)) /\ UNCHANGED <<appVars, deviceVars>>
  \/ (\E resp \in ErrorResponses : FnThrows(resp)) /\ UNCHANGED <<appVars, deviceVars>>
  \/ SvcTimerFires /\ UNCHANGED <<appVars, deviceVars>>

SpecSvc == InitRetry /\ [][NextSvc]_vars

----------------------------------------------------------------------------
(* Service functions whose fn catches and rethrows: transcribeAudio, and   *)
(* recalculateMacros of the first version of geminiService.ts              *)

WrappedOps == {"transcribeAudio", "recalculateMacrosV1"}

\* What fn can throw before its catch block: transcribeAudio has no
\* empty-text check and no JSON.parse.
ThrowableIn(op) ==
  IF op = "transcribeAudio" THEN {Rejected(f) : f \in Failures} ELSE ErrorResponses

\* new Error(error.message || "Transcription failed"): the new error has the
\* message of the caught one and no status.
Rewrapped(error) == [status |-> 0, msg |-> error.msg]

\* The function is called: retryWithBackoff(fn) calls fn, which awaits its
\* generateContent call to Flash.
WrapInvoke(op) ==
  /\ Invoke(DefaultRetries, DefaultDelay)
  /\ sOp' = op
  /\ sPc' = FLASH
  /\ sLog' = <<Call(op, FLASH)>>
  /\ sCalls' = Counted(FLASH)
  /\ UNCHANGED <<sProTransient, sLast, sResult>>

\* fn returns: the transcript, or the parsed payload.
WrapResolves ==
  /\ sOp \in WrappedOps
  /\ sPc = FLASH
  /\ FnResolves
  /\ sPc' = "none"
  /\ sLast' = [tier |-> FLASH, kind |-> "value", fail |-> None, payload |-> None]
  /\ sLog' = [sLog EXCEPT ![Len(sLog)].res = "OK"]
  /\ UNCHANGED <<sOp, sCalls, sProTransient, sResult>>

\* The catch block of fn throws a new Error made from the caught one.
WrapThrows(resp) ==
  /\ sOp \in WrappedOps
  /\ sPc = FLASH
  /\ resp \in ThrowableIn(sOp)
  /\ FnRejects(Rewrapped(resp.fail[1]))
  /\ sPc' = "none"
  /\ sLast' = Outcome(resp)
  /\ sLog' = Logged(resp)
  /\ UNCHANGED <<sOp, sCalls, sProTransient, sResult>>

\* The backoff timer fired: fn is called again.
WrapTimerFires ==
  /\ sOp \in WrappedOps
  /\ TimerFires
  /\ sPc' = FLASH
  /\ sLog' = <<Call(sOp, FLASH)>>
  /\ sCalls' = Counted(FLASH)
  /\ UNCHANGED <<sOp, sProTransient, sLast, sResult>>

NextWrap ==
  \/ (\E op \in WrappedOps : WrapInvoke(op)) /\ UNCHANGED <<appVars, deviceVars>>
  \/ WrapResolves /\ UNCHANGED <<appVars, deviceVars>>
  \/ (\E resp \in ErrorResponses : WrapThrows(resp)) /\ UNCHANGED <<appVars, deviceVars>>
  \/ WrapTimerFires /\ UNCHANGED <<appVars, deviceVars>>

SpecWrap == InitRetry /\ [][NextWrap]_vars

----------------------------------------------------------------------------
(* Properties of the session state machine (specification Spec) *)

Busy == {ANALYZING_IMAGE, PROCESSING_CORRECTION}

\* The steps that are the continuation of an operation started earlier.
CompletionActs ==
  {"imageLoaded", "imageReadNull", "imageResizeRejected", "imageOk", "imageFail",
   "recalcOk", "recalcFail", "transcribeOk", "transcribeFail"}

InFlight == {i \in OpIds : ops[i].phase = "calling"}

SessionCleared ==
  /\ appState = IDLE
  /\ analysisResult = None
  /\ correctionText = ""
  /\ errorMessage = None

\* C1: when recalculateMacros has just failed for a text correction, the
\* session is in RESULT_VIEW, the result is the one that was displayed when
\* the correction was submitted, and an error is shown.
C1_FailedCorrectionKeepsResult ==
  last.act = "recalcFail" =>
    /\ appState = RESULT_VIEW
    /\ analysisResult = last.prev
    /\ errorMessage # None

\* C2: after resetApp and until the next intent, the session stays cleared in
\* IDLE, whatever outcome of an operation started before the reset arrives.
C2_ResetDiscardsOutcome == sinceReset => SessionCleared

\* C3: at most one of analyzeFoodImage, recalculateMacros and transcribeAudio
\* is in flight.
C3_AtMostOneInFlight == Cardinality(InFlight) <= 1

\* A step from a busy state starts no operation and is resetApp or the
\* continuation of an operation already started.
BusyStep ==
  appState \in Busy =>
    /\ nOps' = nOps
    /\ last'.act \in (CompletionActs \cup {"reset"})

C5_ImageOutcome ==
  /\ (last.act = "imageOk" /\ ~last.stale) =>
       /\ appState = RESULT_VIEW
       /\ analysisResult = Some(AnalysisOf(last.op))
  /\ (last.act = "imageFail" /\ ~last.stale) =>
       /\ appState = ERROR
       /\ errorMessage # None
       /\ analysisResult = None

\* The lifecycle changes of the state table.
AllowedTransitions ==
  { <<IDLE, ANALYZING_IMAGE>>, <<ANALYZING_IMAGE, RESULT_VIEW>>,
    <<ANALYZING_IMAGE, ERROR>>, <<RESULT_VIEW, PROCESSING_CORRECTION>>,
    <<PROCESSING_CORRECTION, RESULT_VIEW>> }

\* A change of appState is one of the table, or a reset to IDLE.
LifecycleStep ==
  appState' # appState =>
    \/ <<appState, appState'>> \in AllowedTransitions
    \/ (appState # IDLE /\ appState' = IDLE /\ last'.act = "reset")

\* C6: every change of appState is one of the table, or a reset from a
\* non-IDLE state to IDLE.
C6_LifecycleTransitions == [][LifecycleStep]_vars

\* C7: right after resetApp the session is IDLE with no result, no image,
\* an empty correction text and no error (message and technical detail).
C7_ResetClearsAll ==
  last.act = "reset" =>
    /\ appState = IDLE
    /\ analysisResult = None
    /\ selectedImage = None
    /\ correctionText = ""
    /\ errorMessage = None
    /\ rawError = None

\* resetApp has just run on a session that displayed a result.
C7_Witness == last.act = "reset" /\ last.prev # None /\ InFlight = {}

\* While a correction is processed the result changes only by resetApp or
\* by being replaced with the result recalculateMacros returned for it.
FrameStep ==
  /\ appState = PROCESSING_CORRECTION
  /\ \E i \in InFlight : ops[i].kind = "recalc" /\ ~ops[i].reset
  /\ analysisResult' # analysisResult
  =>
    \/ last'.act = "reset"
    \/ /\ last'.act = "recalcOk"
       /\ analysisResult # None
       /\ analysisResult' = Some(Recalculated(analysisResult[1]))

\* C21: from the submission of a text correction until its outcome arrives
\* (PROCESSING_CORRECTION) analysisResult stays the result displayed at the
\* submission; it changes only by being replaced as a whole with the
\* result recalculateMacros returned for it (or by resetApp).
C21_ResultFrozenWhileProcessing == [][FrameStep]_vars

\* The steps of a voice correction: the intent, the success and the failure
\* of transcribeAudio.
VoiceStep ==
  /\ last'.act = "audio" /\ last' # last =>
       /\ appState = RESULT_VIEW
       /\ appState' = PROCESSING_CORRECTION
       /\ analysisResult' = analysisResult
       /\ correctionText' = correctionText
       /\ ops'[last'.op].kind = "transcribe"
  /\ last'.act = "transcribeOk" /\ last' # last =>
       /\ appState' = RESULT_VIEW
       /\ analysisResult' = analysisResult
       /\ correctionText' \in Transcripts
       /\ nOps' = nOps
       /\ errorMessage' = errorMessage
  /\ last'.act = "transcribeFail" /\ last' # last =>
       /\ appState' = RESULT_VIEW
       /\ analysisResult' = analysisResult
       /\ correctionText' = correctionText
       /\ nOps' = nOps
       /\ errorMessage' # None

\* C22: a voice correction is accepted in RESULT_VIEW, starts transcribeAudio
\* and never recalculateMacros, and none of its steps changes
\* analysisResult: a successful transcription puts the transcribed text in
\* correctionText and sets RESULT_VIEW; a failed one sets RESULT_VIEW with
\* analysisResult and correctionText unchanged and an error shown.
C22_VoiceCorrectionFrame == [][VoiceStep]_vars

\* A transcription has just failed on a session that shows a result and
\* holds a typed correction.
C22_Witness ==
  /\ last.act = "transcribeFail"
  /\ appState = RESULT_VIEW
  /\ analysisResult # None
  /\ correctionText = "rice 200g"
  /\ errorMessage # None

LocalizedMessages ==
  {IMAGE_FAILED, RECALC_FAILED, SPEECH_FAILED, MSG_403, MSG_429, MSG_503,
   MSG_API_KEY, MSG_DEFAULT}

\* What a catch block of the BACKEND_SPEC.md listing can receive.
CaughtFailures == SessionFailures \cup {[status |-> 0, msg |-> {}]}

C26_ResultPresentInResultStates ==
  appState \in {RESULT_VIEW, PROCESSING_CORRECTION} => analysisResult # None

\* C27: in ERROR an error is present and no result is.
C27_ErrorStateShape ==
  appState = ERROR => errorMessage # None /\ analysisResult = None

\* C28: in IDLE there is no result, no error and no correction text, also
\* once a continuation of an operation outstanding at the reset has run.
C28_IdleIsClear ==
  appState = IDLE =>
    /\ analysisResult = None
    /\ errorMessage = None
    /\ rawError = None
    /\ correctionText = ""

\* The session is IDLE after the continuation of a read started before the
\* reset has run.
C28_Witness ==
  /\ appState = IDLE
  /\ last.act = "imageLoaded"
  /\ last.stale
  /\ nOps > 1

\* C29: in RESULT_VIEW the result is the analysis, or a correction of the
\* analysis, of the image held in selectedImage.
C29_ResultOfSelectedImage ==
  appState = RESULT_VIEW =>
    /\ analysisResult # None
    /\ selectedImage = Some(analysisResult[1].image)

\* C30: when every file read and every service call completes, a session
\* in ANALYZING_IMAGE eventually is in RESULT_VIEW, ERROR or IDLE, and a
\* session in PROCESSING_CORRECTION eventually is in RESULT_VIEW or IDLE.
C30_BusyEventuallyLeaves ==
  /\ (appState = ANALYZING_IMAGE) ~> (appState \in {RESULT_VIEW, ERROR, IDLE})
  /\ (appState = PROCESSING_CORRECTION) ~> (appState \in {RESULT_VIEW, IDLE})

\* C31: when a text correction has just completed successfully the session
\* is in RESULT_VIEW and shows no error: the error of an earlier failed
\* correction was cleared when the next correction was submitted.
C31_ErrorClearedByNextCorrection ==
  last.act = "recalcOk" /\ ~last.stale =>
    /\ appState = RESULT_VIEW
    /\ errorMessage = None

\* The two continuations of a text correction.
CorrectionOutcomeStep ==
  /\ last'.act = "recalcOk" /\ last' # last =>
       /\ correctionText' = ""
       /\ last'.prev # None
       /\ analysisResult' = Some(Recalculated(last'.prev[1]))
       /\ appState' = RESULT_VIEW
  /\ last'.act = "recalcFail" /\ last' # last =>
       /\ correctionText' = correctionText
       /\ analysisResult' = analysisResult
       /\ appState' = RESULT_VIEW

\* C32: when recalculateMacros resolves, correctionText is cleared and
\* analysisResult becomes the returned result; when it rejects,
\* correctionText is left as it is.
C32_CorrectionOutcomeFrame == [][CorrectionOutcomeStep]_vars

\* A correction has just failed and the bar still holds the text as typed.
C32_Witness ==
  /\ last.act = "recalcFail"
  /\ ~last.stale
  /\ appState = RESULT_VIEW
  /\ correctionText = " rice 200g "
  /\ analysisResult # None

\* A submit that returns at once changes nothing, and a submit that goes
\* on to call recalculateMacros had a non-blank text and a result.
SubmitStep ==
  /\ last'.act = "submitIgnored" =>
       UNCHANGED <<appState, analysisResult, correctionText, errorMessage,
                   rawError, selectedImage, ops, nOps>>
  /\ last'.act = "submit" /\ last' # last =>
       /\ Trim(correctionText) # ""
       /\ analysisResult # None

\* C33: submitting a text correction whose text is empty or only
\* whitespace, or with no result present, is a no-op: recalculateMacros is
\* not called and appState, analysisResult, correctionText and the error
\* are unchanged.
C33_BlankSubmitIsNoOp == [][SubmitStep]_vars

\* A whitespace-only text was submitted while an error was shown.
C33_Witness ==
  /\ last.act = "submitIgnored"
  /\ correctionText = " "
  /\ appState = RESULT_VIEW
  /\ errorMessage # None

----------------------------------------------------------------------------
(* Properties of the retry controller (specification SpecRetry) *)

DefaultArgs == [retries |-> DefaultRetries, delay |-> DefaultDelay]

RECURSIVE Pow2(_)
Pow2(n) == IF n = 0 THEN 1 ELSE 2 * Pow2(n - 1)

\* C8 as claimed: when every call fails with a 429/503 kind, at most
\* `retries` calls are made in total (3 under the default policy).
C8_AtMostRetriesCalls ==
  (rArgs = DefaultArgs /\ rAllTransient) => rCalls <= rArgs.retries

\* C8 as amended: at most retries + 1 calls are made in total; when every
\* one of them failed with a 429/503 kind the controller has then thrown, and
\* what it throws is the failure of the last call.
C8_AtMostRetriesPlusOneCalls ==
  /\ rCalls <= rArgs.retries + 1
  /\ (rAllTransient /\ rFail # None /\ rCalls = rArgs.retries + 1) => rPc = "thrown"
  /\ rPc = "thrown" => (rErr = rFail /\ rFail # None)

\* Under the default policy every call failed with a 429/503 kind and the
\* controller has given up.
C8_Witness ==
  /\ rArgs = DefaultArgs
  /\ rAllTransient
  /\ rPc = "thrown"
  /\ rCalls = DefaultRetries + 1

\* C9: the k-th wait is delay * 2^(k-1); a wait follows a retried failure
\* only, so there is none before the first call, after a success or after
\* the final failure; the default policy waits 1000, 2000, 4000.
C9_BackoffDoubles ==
  /\ \A k \in 1..Len(rWaits) : rWaits[k] = rArgs.delay * Pow2(k - 1)
  /\ rPc = "idle" => (rCalls = 0 /\ rWaits = <<>>)
  /\ rPc \in {"calling", "returned", "thrown"} => Len(rWaits) = rCalls - 1
  /\ rPc = "waiting" => Len(rWaits) = rCalls
  /\ (rArgs = DefaultArgs /\ rPc = "thrown" /\ rCalls = DefaultRetries + 1)
       => rWaits = <<1000, 2000, 4000>>

\* The default policy has used all its retries.
C9_Witness ==
  /\ rArgs = DefaultArgs
  /\ rPc = "thrown"
  /\ Len(rWaits) = DefaultRetries

\* C10: a failure of any other kind than RATE_LIMITED and OVERLOADED ends the
\* invocation at once: it is thrown as it is, with no wait and no other call.
C10_OtherKindsNotRetried ==
  (rFail # None /\ Kind(rFail[1]) \notin TransientKinds) =>
    /\ rPc = "thrown"
    /\ rErr = rFail

----------------------------------------------------------------------------
(* Properties of the service functions (specification SpecSvc) *)

FallbackKinds == {"ACCESS_DENIED", "NOT_FOUND"}

\* The Pro call of the current run of fn failed with status 403 or 404.
ProDenied == Len(sLog) >= 1 /\ sLog[1].tier = PRO /\ sLog[1].status \in {403, 404}

\* items, total and summary are present with their declared types.
WellFormed(p) == p.items /\ p.total /\ p.summary

PayloadOf(r) ==
  [items |-> r.items, total |-> r.total, summary |-> r.summary,
   confidence |-> r.confidence]

Settled == sOp \in TieredOps /\ sLast.kind = "json" /\ WellFormed(sLast.payload[1])

\* C11: in analyzeFoodImage and recalculateMacros, when the Pro call fails
\* with status 403 or 404 and the Flash call yields a valid payload, the
\* function returns that payload labelled with the Flash model; when the
\* Pro call yields a valid payload, the function returns that payload
\* labelled with the Pro model and Flash is not called.
C11_FallbackReturnsFastPayload ==
  /\ Settled /\ sLast.tier = FLASH /\ ProDenied =>
       /\ rPc = "returned"
       /\ sResult # None
       /\ PayloadOf(sResult[1]) = sLast.payload[1]
       /\ sResult[1].modelUsed = "Gemini 2.5 Flash"
  /\ Settled /\ sLast.tier = PRO =>
       /\ rPc = "returned"
       /\ sResult # None
       /\ PayloadOf(sResult[1]) = sLast.payload[1]
       /\ sResult[1].modelUsed = "Gemini 3.0 Pro"
       /\ Len(sLog) = 1
       /\ sPc = "none"
       /\ (rCalls = 1 => sCalls.flash = 0)

C11_Witness ==
  /\ sOp = "recalculateMacros"
  /\ rPc = "returned"
  /\ sLast.tier = FLASH
  /\ ProDenied
  /\ sLog[1].status = 404
  /\ sResult = Some(ResultOf(GoodPayload, "Gemini 2.5 Flash"))

C13_MalformedOrUnknownRaises ==
  sLast.kind # "none" /\ ResKind(sLast) \in {"MALFORMED_OUTPUT", "UNKNOWN"} =>
    /\ rPc = "thrown"
    /\ sPc = "none"
    /\ rErr = sLast.fail

\* C14: if every Pro call of analyzeFoodImage or recalculateMacros fails
\* with a failure of kind RATE_LIMITED or OVERLOADED, Flash is never called
\* and the failure the function throws is that transient failure.
C14_TransientNeverFallsBack ==
  sOp \in TieredOps /\ sProTransient =>
    /\ sCalls.flash = 0
    /\ sPc # FLASH
    /\ (rPc = "thrown" => rErr = sLast.fail /\ Kind(rErr[1]) \in TransientKinds)

\* C15: if the Pro call and then the Flash call both fail with a failure of
\* kind ACCESS_DENIED or NOT_FOUND, the function throws the failure of the
\* Flash call, after exactly one call to each model.
C15_BothDeniedRaisesLast ==
  /\ sOp \in TieredOps
  /\ rCalls = 1
  /\ Len(sLog) = 2
  /\ sLog[1].res \in FallbackKinds
  /\ sLog[2].res \in FallbackKinds
  => /\ rPc = "thrown"
     /\ rErr = sLast.fail
     /\ sLast.tier = FLASH
     /\ sCalls = [pro |-> 1, flash |-> 1]

Outstanding == {k \in 1..Len(sLog) : sLog[k].res = "PENDING"}

\* C16: within one call of analyzeFoodImage or recalculateMacros, a Flash
\* call starts only after a Pro call of the same run has completed with a
\* failure of kind ACCESS_DENIED or NOT_FOUND, and at no time are two
\* generateContent calls outstanding.
C16_TiersInOrder ==
  sOp \in TieredOps =>
    /\ Cardinality(Outstanding) <= 1
    /\ \A k \in 1..Len(sLog) :
         sLog[k].tier = FLASH =>
           /\ k = 2
           /\ sLog[1].tier = PRO
           /\ sLog[1].res \in FallbackKinds

\* C17: a failure that carries a status code is classified from the status
\* alone: with a status other than 429 and 503 it is never retried, and
\* with a status other than 403 and 404 it never triggers the fallback,
\* whatever its message contains.
C17_StatusAloneClassifies ==
  sLast.kind = "fail" /\ sLast.fail[1].status # 0 =>
    /\ sLast.fail[1].status \notin {429, 503} => rPc # "waiting"
    /\ sLast.tier = PRO /\ sLast.fail[1].status \notin {403, 404} => Len(sLog) = 1

\* C18: a parsed payload that lacks items, total or summary, or has one of
\* them with the wrong type, is rejected by the service function, so every
\* result it returns has items, total and summary present and well typed.
C18_MalformedPayloadRejected ==
  /\ sLast.kind = "json" /\ ~WellFormed(sLast.payload[1]) => rPc = "thrown"
  /\ rPc = "returned" => sResult # None /\ WellFormed(sResult[1])

\* The confidence range, in tenths.
Clamp(c) == IF c > 10 THEN 10 ELSE IF c < 0 THEN 0 ELSE c

\* C19: the confidence of every item of a returned result lies in [0, 1]:
\* a raw confidence of 1.4 is returned as 1.0 and a raw confidence below 0
\* is returned as 0.
C19_ConfidenceClamped ==
  rPc = "returned" =>
    /\ sResult # None
    /\ sResult[1].confidence \in 0..10
    /\ sResult[1].confidence = Clamp(sLast.payload[1].confidence)

\* C20: analyzeFoodText never calls the Pro model: every generateContent
\* call it makes, the calls of its retries included, goes to Flash.
C20_TextUsesFastOnly ==
  sOp = "analyzeFoodText" =>
    /\ sCalls.pro = 0
    /\ sCalls.flash = rCalls
    /\ sPc # PRO
    /\ \A k \in 1..Len(sLog) : sLog[k].tier = FLASH

C20_Witness ==
  /\ sOp = "analyzeFoodText"
  /\ rPc = "thrown"
  /\ sCalls.flash = DefaultRetries + 1

\* A step taken after the Pro call of the current run failed with status
\* 403 or 404 makes no further Pro call.
DeniedTierStep == sOp \in TieredOps /\ ProDenied => sCalls'.pro = sCalls.pro

\* C24: once the Pro call has failed with status 403 or 404 inside a call
\* of analyzeFoodImage or recalculateMacros, Pro is not called again in the
\* same call: when Flash then fails with 429 or 503 only the Flash call is
\* retried.
C24_DeniedTierNotReinvoked == [][DeniedTierStep]_vars

----------------------------------------------------------------------------
(* Properties of the rethrowing service functions (specification SpecWrap) *)

\* C25: a transcribeAudio call (and a recalculateMacros call of the first
\* version) whose generateContent call fails with status 429 or 503 is
\* retried: its failure is thrown to the caller only once fn has been
\* called retries + 1 times.
C25_WrappedTransientRetried ==
  /\ sOp \in WrappedOps
  /\ sLast.kind = "fail"
  /\ sLast.fail[1].status \in {429, 503}
  /\ rPc = "thrown"
  => rCalls = DefaultRetries + 1

-----------------------------------------------------------------------------
(* The shown message against the service's classification, and the two     *)
(* tiered functions against each other (specification SpecSvc)             *)
-----------------------------------------------------------------------------

\* The kinds the tests of retryWithBackoff and of the catch block around the
\* Pro call stand for.
TreatedRateLimited(f) == f.status = 429 \/ "429" \in f.msg
TreatedOverloaded(f) == f.status = 503
TreatedAccessDenied(f) ==
  f.status = 403 \/ "403" \in f.msg \/ "PERMISSION_DENIED" \in f.msg

\* C34: for a failure the service function throws to App, the message
\* getUserFriendlyError returns is the one of the kind the service layer
\* treated the failure as: the rate-limit message when the retry test took
\* it for a 429, the overload message when it took it for a 503, the access
\* message when the fallback test took it for a 403.
C34_ShownKindAgreesWithService ==
  rPc = "thrown" /\ rErr # None =>
    LET f == rErr[1] IN
    /\ rCalls > 1 /\ ShouldRetry(1, f) /\ TreatedOverloaded(f)
         /\ ~TreatedRateLimited(f) /\ ~TreatedAccessDenied(f)
         => getUserFriendlyError(f) = MSG_503
    /\ rCalls > 1 /\ ShouldRetry(1, f) /\ TreatedRateLimited(f)
         /\ ~TreatedOverloaded(f) /\ ~TreatedAccessDenied(f)
         => getUserFriendlyError(f) = MSG_429
    /\ ShouldFallback(sOp, f) /\ TreatedAccessDenied(f)
         /\ ~TreatedOverloaded(f) /\ ~TreatedRateLimited(f)
         => getUserFriendlyError(f) = MSG_403

OtherTieredOp(op) ==
  IF op = "analyzeFoodImage" THEN "recalculateMacros" ELSE "analyzeFoodImage"

\* C35: the decision to fall back to Flash is the same function of the
\* failure in analyzeFoodImage and in recalculateMacros: when the Pro call
\* of one of them has failed, it falls back if and only if the other one
\* would fall back on that failure.
C35_SameFallbackDecision ==
  sOp \in TieredOps /\ sLast.tier = PRO /\ sLast.fail # None =>
    (Len(sLog) = 2 <=> ShouldFallback(OtherTieredOp(sOp), sLast.fail[1]))

-----------------------------------------------------------------------------
(* resizeImage of the backend-calling listing: the size of the canvas the   *)
(* chosen picture is drawn on (specification SpecResize)                    *)
-----------------------------------------------------------------------------

maxDim == 1024

\* Sides up to SmallSide are enumerated one by one; the others are the sides
\* around the limit and its multiples.
SmallSide == 3

Dims ==
  (1..SmallSide) \cup {maxDim - 1, maxDim, maxDim + 1, 2 * maxDim,
                       2 * maxDim + 1, 4 * maxDim + 1}

\* Math.round of the positive quotient num / den: halves go up.
Round(num, den) == (2 * num + den) \div (2 * den)

\* The <<width, height>> assigned to the canvas for an image of w by h.
TargetSize(w, h) ==
  IF w > maxDim \/ h > maxDim
    THEN IF w > h
           THEN <<maxDim, Round(h * maxDim, w)>>
           ELSE <<Round(w * maxDim, h), maxDim>>
    ELSE <<w, h>>

\* resizeImage(file) is called: the reader loads the file and hands it to img.
resizeImage(w, h) ==
  /\ rsIn = None
  /\ rsIn' = Some(<<w, h>>)
  /\ rsOut' = None

\* img.onload: the canvas gets its size and the promise resolves.
ImgOnLoad ==
  /\ rsIn # None
  /\ rsOut = None
  /\ rsOut' = Some(TargetSize(rsIn[1][1], rsIn[1][2]))
  /\ UNCHANGED rsIn

\* img.onerror: the promise rejects, no canvas is made.
ImgOnError ==
  /\ rsIn # None
  /\ rsOut = None
  /\ rsIn' = None
  /\ UNCHANGED rsOut

NextResize ==
  \/ (\E w \in Dims, h \in Dims : resizeImage(w, h))
       /\ UNCHANGED <<appVars, retryVars, svcVars, camVars>>
  \/ ImgOnLoad /\ UNCHANGED <<appVars, retryVars, svcVars, camVars>>
  \/ ImgOnError /\ UNCHANGED <<appVars, retryVars, svcVars, camVars>>

SpecResize == InitRetry /\ [][NextResize]_vars

\* C36: every source size of at least 1 by 1 gets a target size with both
\* sides in 1..1024: a source with both sides at most 1024 keeps its size,
\* otherwise the larger side becomes 1024 and the other one the rounded
\* proportional value.
C36_TargetSizeWithinLimit ==
  rsOut # None =>
    LET w == rsIn[1][1]
        h == rsIn[1][2]
        tw == rsOut[1][1]
        th == rsOut[1][2]
    IN /\ tw \in 1..maxDim
       /\ th \in 1..maxDim
       /\ w <= maxDim /\ h <= maxDim => tw = w /\ th = h
       /\ (w > maxDim \/ h > maxDim) /\ w > h =>
            tw = maxDim /\ th = Round(h * maxDim, w)
       /\ (w > maxDim \/ h > maxDim) /\ w <= h =>
            th = maxDim /\ tw = Round(w * maxDim, h)

-----------------------------------------------------------------------------
(* CameraCapture: the camera lifecycle effect and the media streams it      *)
(* obtains (specification SpecCam)                                          *)
-----------------------------------------------------------------------------

\* How many times the effect may call getUserMedia in one behaviour.
MaxRuns == 3

CAMERA_FAILED == "Could not open the camera. Check the permissions."

OtherFacing(m) == IF m = "user" THEN "environment" ELSE "user"

\* The <video> element exists while the overlay is rendered.
VideoPresent == camMounted /\ isCameraOpen

Pending(k) == k \in DOMAIN camRuns /\ camRuns[k].state = "pending"

\* The effect's cleanup: the closure of the current run gets mounted = false,
\* and the tracks of the stream activeStreamRef points at are stopped.
CleanedUp ==
  [k \in DOMAIN camRuns |->
     IF k = camCur THEN [camRuns[k] EXCEPT !.mounted = FALSE] ELSE camRuns[k]]

StoppedByCleanup ==
  camLive \ (IF activeStreamRef = None THEN {} ELSE {activeStreamRef[1]})

\* The effect runs with isCameraOpen true: initCamera clears the error and
\* awaits getUserMedia for the facing mode m.
EffectRequests(m) ==
  /\ camN < MaxRuns
  /\ cameraError' = None
  /\ camRuns' = Append(CleanedUp, [state |-> "pending", mounted |-> TRUE,
                                   facing |-> m])
  /\ camN' = camN + 1
  /\ camCur' = camN + 1
  /\ activeStreamRef' = None
  /\ camLive' = StoppedByCleanup

openCamera ==
  /\ camMounted
  /\ ~isCameraOpen
  /\ isCameraOpen' = TRUE
  /\ EffectRequests(facingMode)
  /\ UNCHANGED <<facingMode, camMounted>>

switchCamera ==
  /\ camMounted
  /\ isCameraOpen
  /\ facingMode' = OtherFacing(facingMode)
  /\ EffectRequests(OtherFacing(facingMode))
  /\ UNCHANGED <<isCameraOpen, camMounted>>

\* The effect runs again with isCameraOpen false: initCamera returns at once.
closeCamera ==
  /\ camMounted
  /\ isCameraOpen
  /\ isCameraOpen' = FALSE
  /\ cameraError' = None
  /\ camRuns' = CleanedUp
  /\ camCur' = 0
  /\ activeStreamRef' = None
  /\ camLive' = StoppedByCleanup
  /\ UNCHANGED <<facingMode, camMounted, camN>>

\* The session leaves IDLE and CameraCapture is removed: only the cleanup runs.
UnmountCamera ==
  /\ camMounted
  /\ camMounted' = FALSE
  /\ camRuns' = CleanedUp
  /\ camCur' = 0
  /\ activeStreamRef' = None
  /\ camLive' = StoppedByCleanup
  /\ UNCHANGED <<isCameraOpen, facingMode, cameraError, camN>>

\* Step 3 of initCamera: the stream is attached to the video element.
Attached(k) == camRuns[k].mounted /\ VideoPresent

\* getUserMedia of run k resolves with stream k, whose tracks are running.
GetUserMediaResolves(k) ==
  /\ Pending(k)
  /\ camRuns' = [camRuns EXCEPT ![k].state = "resolved"]
  /\ activeStreamRef' = Some(k)
  /\ camLive' = (IF Attached(k) THEN camLive \cup {k} ELSE camLive)
  /\ UNCHANGED <<isCameraOpen, facingMode, cameraError, camMounted, camN,
                 camCur>>

GetUserMediaRejects(k) ==
  /\ Pending(k)
  /\ camRuns' = [camRuns EXCEPT ![k].state = "rejected"]
  /\ cameraError' = (IF camRuns[k].mounted THEN Some(CAMERA_FAILED)
                                           ELSE cameraError)
  /\ UNCHANGED <<isCameraOpen, facingMode, camMounted, camN, camCur,
                 activeStreamRef, camLive>>

NextCam ==
  \/ openCamera /\ UNCHANGED <<appVars, retryVars, svcVars, resizeVars>>
  \/ switchCamera /\ UNCHANGED <<appVars, retryVars, svcVars, resizeVars>>
  \/ closeCamera /\ UNCHANGED <<appVars, retryVars, svcVars, resizeVars>>
  \/ UnmountCamera /\ UNCHANGED <<appVars, retryVars, svcVars, resizeVars>>
  \/ (\E k \in 1..MaxRuns : GetUserMediaResolves(k))
       /\ UNCHANGED <<appVars, retryVars, svcVars, resizeVars>>
  \/ (\E k \in 1..MaxRuns : GetUserMediaRejects(k))
       /\ UNCHANGED <<appVars, retryVars, svcVars, resizeVars>>

SpecCam == InitRetry /\ [][NextCam]_vars

\* C37: once the overlay is closed or the component is unmounted, and no
\* getUserMedia request is pending, no stream the component obtained has
\* running tracks.
C37_NoStreamLeftRunning ==
  /\ ~isCameraOpen \/ ~camMounted
  /\ \A k \in 1..MaxRuns : ~Pending(k)
  => camLive = {}

====
